---- MODULE Spec2Model ----
(***************************************************************************)
(* Model of the timer-triggered blob synchronisation job                   *)
(* move_public_csv_timer (AppProcessaArquivo/project/function_app.py).     *)
(*                                                                         *)
(* Strings are sequences of one-character strings.  The two containers are *)
(* sets of blob names shared by every invocation; each invocation (run)    *)
(* has its own configuration snapshot, listing cursor, counters and log.   *)
(*                                                                         *)
(* The retry loop fetch_last_price (AppFiapFinance/function_app.py) is a   *)
(* second, independent machine over the variables fpc .. downloads.        *)
(***************************************************************************)
EXTENDS Integers, Sequences, FiniteSets, TLC

\* ------------------------------------------------------------------ bounds
MaxRuns == 2        \* timer invocations that are modelled
PageSize == 2       \* blobs returned by one listing request
MaxFaults == 1      \* service requests that fail, over all runs
MaxRetries == 3     \* largest `retries` fetch_last_price is called with

Runs == 1..MaxRuns

\* ----------------------------------------------------------------- strings
\* A code point that is a lone surrogate: str.encode("utf-8") rejects it.
SUR == "<U+DC80>"

UpperChars == <<"A","B","C","D","E","F","G","H","I","J","K","L","M",
                "N","O","P","Q","R","S","T","U","V","W","X","Y","Z">>
LowerChars == <<"a","b","c","d","e","f","g","h","i","j","k","l","m",
                "n","o","p","q","r","s","t","u","v","w","x","y","z">>
DigitChars == {"0","1","2","3","4","5","6","7","8","9"}
WhiteChars == {" ", "\t", "\n", "\r"}

Range(s) == {s[i] : i \in 1..Len(s)}

\* str.lower(), one character
LowerOf == [c \in Range(UpperChars) |->
              LowerChars[CHOOSE i \in 1..Len(UpperChars) : UpperChars[i] = c]]
LowerChar(c) == IF c \in DOMAIN LowerOf THEN LowerOf[c] ELSE c

\* variant: the name is compared without being lowered
LowerIdentity(s) == s

\* str.lower()
Lower(s) == [i \in 1..Len(s) |-> LowerChar(s[i])]

\* str.endswith(suf)
EndsWith(s, suf) ==
    /\ Len(s) >= Len(suf)
    /\ SubSeq(s, Len(s) - Len(suf) + 1, Len(s)) = suf

\* str.startswith(pre)
StartsWith(s, pre) ==
    /\ Len(s) >= Len(pre)
    /\ SubSeq(s, 1, Len(pre)) = pre

\* str.strip(): drop leading and trailing whitespace
RECURSIVE LStrip(_)
LStrip(s) == IF s # <<>> /\ Head(s) \in WhiteChars THEN LStrip(Tail(s)) ELSE s
RECURSIVE RStrip(_)
RStrip(s) ==
    IF s # <<>> /\ s[Len(s)] \in WhiteChars
    THEN RStrip(SubSeq(s, 1, Len(s) - 1)) ELSE s
Strip(s) == RStrip(LStrip(s))

\* urllib.parse.quote(name, safe="/"): characters kept as they are
QuoteSafe == Range(UpperChars) \cup Range(LowerChars) \cup DigitChars
             \cup {"_", ".", "-", "~", "/"}
\* percent-encoding of the other characters that occur in names
PctEncode(c) ==
    CASE c = " " -> <<"%", "2", "0">>
      [] c = "%" -> <<"%", "2", "5">>
      [] OTHER   -> <<"%", "?", "?">>
\* quote() encodes the string as UTF-8 first and raises UnicodeEncodeError
\* on a lone surrogate
QuoteRaises(s) == \E i \in 1..Len(s) : s[i] = SUR
RECURSIVE Quote(_)
Quote(s) ==
    IF s = <<>> THEN <<>>
    ELSE (IF Head(s) \in QuoteSafe THEN <<Head(s)>> ELSE PctEncode(Head(s)))
         \o Quote(Tail(s))

\* ------------------------------------------------------------- blob names
NameA     == <<"i","n","/","a",".","c","s","v">>
NameBad   == <<"i","n","/","a",SUR,".","c","s","v">>
NameB     == <<"i","n","/","b",".","C","S","V">>
NameNotes == <<"i","n","/","n","o","t","e","s",".","t","x","t">>

\* the blob service lists names in lexicographic order
NameOrder == <<NameA, NameBad, NameB, NameNotes>>
Names == Range(NameOrder)
Pos(n) == CHOOSE i \in 1..Len(NameOrder) : NameOrder[i] = n

PrefixIn  == <<"i","n","/">>
PrefixOut == <<"o","u","t","/">>
SasToken  == <<"s","v","=","1">>
Blank     == <<" ">>
SrcUrl    == <<"h","t","t","p","s",":","/","/","s","/","c">>
AcctName  == <<"d","s","t">>
ContName  == <<"p","r","i","v">>

\* ------------------------------------------------------------ environment
\* value of an environment variable that is not set
Unset == <<"<unset>">>

EnvKeys == {"SOURCE_CONTAINER_URL", "SOURCE_PREFIX", "DEST_ACCOUNT",
            "DEST_CONTAINER", "DEST_PREFIX", "SOURCE_DELETE_SAS"}

\* variant: DEST_CONTAINER read with a default instead of os.environ[...]
RequiredKeysNoContainer == {"SOURCE_CONTAINER_URL", "DEST_ACCOUNT"}

\* keys read with os.environ[...]: a missing key raises KeyError
RequiredKeys == {"SOURCE_CONTAINER_URL", "DEST_ACCOUNT", "DEST_CONTAINER"}

\* os.getenv(key, default)
GetEnv(e, k, default) == IF e[k] = Unset THEN default ELSE e[k]

\* the test that os.environ[...] passes for every required key
MissingKey(e) == \E k \in RequiredKeys : e[k] = Unset

EnvBase == [k \in EnvKeys |->
              CASE k = "SOURCE_CONTAINER_URL" -> SrcUrl
                [] k = "SOURCE_PREFIX"        -> PrefixIn
                [] k = "DEST_ACCOUNT"         -> AcctName
                [] k = "DEST_CONTAINER"       -> ContName
                [] k = "DEST_PREFIX"          -> PrefixOut
                [] k = "SOURCE_DELETE_SAS"    -> Unset]

EnvSas    == [EnvBase EXCEPT !["SOURCE_DELETE_SAS"] = SasToken]
EnvBlank  == [EnvBase EXCEPT !["SOURCE_DELETE_SAS"] = Blank]
EnvNoDest == [EnvBase EXCEPT !["DEST_CONTAINER"] = Unset]
Envs == {EnvBase, EnvSas, EnvBlank, EnvNoDest}

\* the deployments that are modelled: settings, source container contents,
\* destination container contents
Deployments ==
    { <<EnvBase,   Names \ {NameBad}, {}>>,
      <<EnvBase,   Names,             {PrefixOut \o NameA}>>,
      <<EnvSas,    Names \ {NameBad}, {}>>,
      <<EnvSas,    Names \ {NameBad}, {PrefixOut \o NameA}>>,
      <<EnvBlank,  Names \ {NameBad}, {PrefixOut \o NameA}>>,
      <<EnvNoDest, Names \ {NameBad}, {}>> }

\* configuration snapshot of one run (lines 21-29)
LoadConfig(e) ==
    [ SRC_CONTAINER_URL |-> e["SOURCE_CONTAINER_URL"],
      SRC_PREFIX        |-> GetEnv(e, "SOURCE_PREFIX", <<>>),
      DEST_ACCOUNT      |-> e["DEST_ACCOUNT"],
      DEST_CONTAINER    |-> e["DEST_CONTAINER"],
      DEST_PREFIX       |-> GetEnv(e, "DEST_PREFIX", <<>>),
      SRC_DELETE_SAS    |-> Strip(GetEnv(e, "SOURCE_DELETE_SAS", <<>>)) ]

NoConfig == [ SRC_CONTAINER_URL |-> <<>>, SRC_PREFIX |-> <<>>,
              DEST_ACCOUNT |-> <<>>, DEST_CONTAINER |-> <<>>,
              DEST_PREFIX |-> <<>>, SRC_DELETE_SAS |-> <<>> ]

\* ------------------------------------------------------- per-object values
\* variant: the suffix filter lets every name through
IsCsvUnfiltered(name) == TRUE

\* name_lower.endswith(".csv")  (lines 44-45)
IsCsv(name) == EndsWith(Lower(name), <<".","c","s","v">>)

\* src_blob_url (lines 50-51)
SrcBlobUrl(c, name) == c.SRC_CONTAINER_URL \o <<"/">> \o Quote(name)

\* variant: the destination keeps only the last path segment of the name
DestBlobNameFlat(c, name) ==
    LET cut == {i \in 1..Len(name) : name[i] = "/"}
        last == IF cut = {} THEN 0
                ELSE CHOOSE i \in cut : \A j \in cut : j <= i
    IN  c.DEST_PREFIX \o SubSeq(name, last + 1, Len(name))
\* variant: the destination prefix is left out
DestBlobNameNoPrefix(c, name) == name

\* dest_blob_name (line 54)
DestBlobName(c, name) == c.DEST_PREFIX \o name

\* variant: `if SRC_DELETE_SAS is not None:`
DeleteEnabledNotNone(c) == Len(c.SRC_DELETE_SAS) >= 0

\* `if SRC_DELETE_SAS:` (line 77)
DeleteEnabled(c) == c.SRC_DELETE_SAS # <<>>

\* ------------------------------------------------------------ the services
\* variant: the existence check never finds the destination blob
DestExistsNever(d, dest) == FALSE

\* BlobClient.exists() on the destination
DestExists(d, dest) == d \in dest

\* variant: overwrite=True, the service never refuses
CopyRejectedOverwrite(d, dest) == FALSE

\* upload_blob_from_url(..., overwrite=False): the service refuses to create
\* a name that exists (ResourceExistsError)
CopyRejected(d, dest) == d \in dest

\* the source blob that a public URL addresses, if it is still there
SourceAt(url, c, source) == {n \in source : SrcBlobUrl(c, n) = url}

\* names a listing request returns: those with the prefix, after the
\* continuation marker, in lexicographic order, at most PageSize of them
Candidates(source, prefix, after) ==
    {n \in source : StartsWith(n, prefix) /\ Pos(n) > after}
RECURSIVE SortedSeq(_)
SortedSeq(S) ==
    IF S = {} THEN <<>>
    ELSE LET m == CHOOSE n \in S : \A o \in S : Pos(n) <= Pos(o)
         IN  <<m>> \o SortedSeq(S \ {m})
PageOf(source, prefix, after) ==
    LET all == SortedSeq(Candidates(source, prefix, after))
    IN  SubSeq(all, 1, IF Len(all) < PageSize THEN Len(all) ELSE PageSize)
MoreAfter(source, prefix, after) ==
    Cardinality(Candidates(source, prefix, after)) > PageSize

\* variant: the pager asks for the same page again
NextMarkerStuck(a, p) == a

\* continuation marker after page p was returned
NextMarker(a, p) == IF p = <<>> THEN a ELSE Pos(p[Len(p)])

\* ---------------------------------------------------------------- counters
Zero == [copied |-> 0, skipped |-> 0, deleted |-> 0, failed |-> 0]
Plus(a, b) == [copied  |-> a.copied + b.copied,
               skipped |-> a.skipped + b.skipped,
               deleted |-> a.deleted + b.deleted,
               failed  |-> a.failed + b.failed]
Minus(a, b) == [copied  |-> a.copied - b.copied,
                skipped |-> a.skipped - b.skipped,
                deleted |-> a.deleted - b.deleted,
                failed  |-> a.failed - b.failed]

\* ------------------------------------------------------------------- state
VARIABLES
    env,        \* os.environ of the function app
    src,        \* names in the public source container
    dst,        \* names in the destination container
    pc,         \* position of each run
    cfg,        \* configuration snapshot of each run
    cnt,        \* copied / skipped / deleted / failed of each run
    page,       \* blobs of the current listing page not yet yielded
    more,       \* the listing has a further page to request
    after,      \* continuation marker: position of the last listed name
    cur,        \* the blob being processed
    logs,       \* records written to the logger by each run
    ev,         \* history: requests and outcomes per run and blob
    tally,      \* history: counter increments per run and blob
    cause,      \* history: what aborted the run
    fetched,    \* history: listing requests answered per run
    dstAtStart, \* history: destination contents when the run began
    endedAtStart, \* history: runs that had ended when the run began
    faults,     \* history: failed service requests so far
    asked,      \* history: names and URLs each run put in its requests
    visited,    \* history: blobs the for loop of each run has taken
    srcSeen,    \* history: source contents at the run's listing requests
    src0,       \* history: source contents at the beginning
    fpc,        \* fetch_last_price: position in the function
    retries,    \* fetch_last_price: parameter retries
    pause,      \* fetch_last_price: parameter pause, in microseconds
    fi,         \* fetch_last_price: loop variable i of `for i in range(retries)`
    result,     \* fetch_last_price: value returned to the caller
    slept,      \* history: durations passed to time.sleep, in microseconds
    downloads   \* history: attempt, request and answer of every yf.download

fetchVars == <<fpc, retries, pause, fi, result, slept, downloads>>

blobVars == <<env, src, dst, pc, cfg, cnt, page, more, after, cur, logs,
              ev, tally, cause, fetched, dstAtStart, endedAtStart, faults,
              asked, visited, srcSeen, src0>>

vars == <<env, src, dst, pc, cfg, cnt, page, more, after, cur, logs,
          ev, tally, cause, fetched, dstAtStart, endedAtStart, faults,
          asked, visited, srcSeen, src0,
          fpc, retries, pause, fi, result, slept, downloads>>

\* fetch_last_price has not been called
FetchIdle ==
    /\ fpc = "idle"
    /\ retries = 0
    /\ pause = 0
    /\ fi = 0
    /\ result = [kind |-> "unset", value |-> 0]
    /\ slept = <<>>
    /\ downloads = <<>>

NoBlob == <<>>

Init ==
    /\ \E dep \in Deployments :
         /\ env = dep[1]
         /\ src = dep[2]
         /\ dst = dep[3]
    /\ pc = [r \in Runs |-> "idle"]
    /\ cfg = [r \in Runs |-> NoConfig]
    /\ cnt = [r \in Runs |-> Zero]
    /\ page = [r \in Runs |-> <<>>]
    /\ more = [r \in Runs |-> FALSE]
    /\ after = [r \in Runs |-> 0]
    /\ cur = [r \in Runs |-> NoBlob]
    /\ logs = [r \in Runs |-> <<>>]
    /\ ev = [r \in Runs |-> [n \in Names |-> {}]]
    /\ tally = [r \in Runs |-> [n \in Names |-> Zero]]
    /\ cause = [r \in Runs |-> "none"]
    /\ fetched = [r \in Runs |-> 0]
    /\ dstAtStart = [r \in Runs |-> {}]
    /\ endedAtStart = [r \in Runs |-> {}]
    /\ faults = 0
    /\ asked = [r \in Runs |-> {}]
    /\ visited = [r \in Runs |-> <<>>]
    /\ srcSeen = [r \in Runs |-> {}]
    /\ src0 = src
    /\ FetchIdle

\* ------------------------------------------------------- counter updates
\* variant: an existing destination is passed over without being counted
OnAlreadyThereUncounted(c) == [c EXCEPT !.skipped = @]
\* variant: no `except ResourceExistsError` clause, the generic one counts
OnResourceExistsAsFailure(c) == [c EXCEPT !.failed = @ + 1]
\* variant: an existing destination is reported as a copy
OnAlreadyThereAsCopied(c) == [c EXCEPT !.copied = @ + 1]
\* variant: the generic except clause logs the error without counting it
OnExceptionUncounted(c) == [c EXCEPT !.failed = @]
\* variant: a successful copy is not counted
OnCopiedUncounted(c) == [c EXCEPT !.copied = @]

OnAlreadyThere(c)   == [c EXCEPT !.skipped = @ + 1]    \* line 66
OnCopied(c)         == [c EXCEPT !.copied = @ + 1]     \* line 74
OnDeleted(c)        == [c EXCEPT !.deleted = @ + 1]    \* line 81
OnResourceExists(c) == [c EXCEPT !.skipped = @ + 1]    \* lines 83-85
OnException(c)      == [c EXCEPT !.failed = @ + 1]     \* lines 86-87

\* log records
SummaryLine(c) == [level |-> "info", what |-> "summary", counters |-> c]
ObjectError    == [level |-> "error", what |-> "object", counters |-> Zero]
GeneralError   == [level |-> "error", what |-> "general", counters |-> Zero]

\* variant: the loop stops at the end of the first page
CursorExhaustedPageOnly(p, m) == p = <<>>

\* the for loop has nothing left to iterate: no blob in the current page
\* and no continuation
CursorExhausted(p, m) == p = <<>> /\ ~m

\* The loop body up to the per-object try (lines 43-61), run over the blobs
\* of the current page: blobs that fail the suffix filter are passed over;
\* the first blob that passes it is either handed to the try block or makes
\* quote() raise.
RECURSIVE NextBlob(_)
NextBlob(p) ==
    IF p = <<>>
    THEN [kind |-> "empty", blob |-> NoBlob, rest |-> <<>>, seen |-> {}]
    ELSE IF ~IsCsv(Head(p))
    THEN [NextBlob(Tail(p)) EXCEPT !.seen = @ \cup {Head(p)}]
    ELSE IF QuoteRaises(Head(p))
    THEN [kind |-> "raise", blob |-> Head(p), rest |-> Tail(p),
          seen |-> {Head(p)}]
    ELSE [kind |-> "blob", blob |-> Head(p), rest |-> Tail(p),
          seen |-> {Head(p)}]

\* ----------------------------------------------------------------- actions
Ended(r) == pc[r] \in {"done", "aborted", "killed"}

\* variant: the exception is logged and the run carries on
AbortSwallowed(r, why, logsNow) ==
    /\ pc' = [pc EXCEPT ![r] = IF pc[r] = "idle" THEN "aborted" ELSE pc[r]]
    /\ logs' = [logs EXCEPT ![r] = Append(logsNow, GeneralError)]
    /\ cause' = [cause EXCEPT ![r] = why]

\* the outer `except Exception` (lines 92-93)
Abort(r, why, logsNow) ==
    /\ pc' = [pc EXCEPT ![r] = "aborted"]
    /\ logs' = [logs EXCEPT ![r] = Append(logsNow, GeneralError)]
    /\ cause' = [cause EXCEPT ![r] = why]

\* a service request fails (network, permission, throttling)
Fault == faults < MaxFaults /\ faults' = faults + 1
NoFault == faults' = faults

\* history of one blob of run r
Note(e, r, n, tags) == [e EXCEPT ![r][n] = @ \cup tags]

Count(r, n, newc) ==
    /\ cnt' = [cnt EXCEPT ![r] = newc]
    /\ tally' = [tally EXCEPT ![r][n] = Plus(@, Minus(newc, cnt[r]))]

\* Control returns to the for statement (line 43) with p the rest of the
\* current page: the loop runs on to the next blob that reaches the try
\* block, to the next listing request, to the summary (line 90) or to the
\* outer handler.
Continue(r, p, m, evNow, logsNow, cntNow) ==
    \E nb \in {NextBlob(p)} :
    LET evNext == [evNow EXCEPT ![r] =
                     [n \in Names |->
                        @[n] \cup (IF n \in nb.seen THEN {"listed"} ELSE {})
                             \cup (IF nb.kind = "raise" /\ n = nb.blob
                                   THEN {"quoteErr"} ELSE {})]]
    IN  /\ page' = [page EXCEPT ![r] = nb.rest]
        /\ visited' = [visited EXCEPT ![r] =
                          @ \o SubSeq(p, 1, Len(p) - Len(nb.rest))]
        /\ ev' = evNext
        /\ CASE nb.kind = "blob" ->
                  /\ cur' = [cur EXCEPT ![r] = nb.blob]
                  /\ pc' = [pc EXCEPT ![r] = "exists"]
                  /\ logs' = [logs EXCEPT ![r] = logsNow]
                  /\ UNCHANGED cause
             [] nb.kind = "raise" ->
                  /\ Abort(r, "object", logsNow)
                  /\ UNCHANGED cur
             [] nb.kind = "empty" ->
                  /\ IF CursorExhausted(nb.rest, m)
                     THEN /\ pc' = [pc EXCEPT ![r] = "done"]
                          /\ logs' = [logs EXCEPT ![r] =
                                        Append(logsNow, SummaryLine(cntNow))]
                     ELSE /\ pc' = [pc EXCEPT ![r] = "iter"]
                          /\ logs' = [logs EXCEPT ![r] = logsNow]
                  /\ UNCHANGED <<cur, cause>>

\* The timer fires: settings are read, the clients and the counters are
\* created and list_blobs returns its lazy pager (lines 18-43).
Start(r) ==
    /\ pc[r] = "idle"
    /\ \A q \in Runs : q < r => pc[q] # "idle"
    /\ dstAtStart' = [dstAtStart EXCEPT ![r] = dst]
    /\ endedAtStart' = [endedAtStart EXCEPT ![r] = {q \in Runs : Ended(q)}]
    /\ \/ /\ MissingKey(env)
          /\ Abort(r, "config", logs[r])
          /\ NoFault
          /\ UNCHANGED <<cfg, more>>
       \/ /\ ~MissingKey(env)
          /\ \/ /\ NoFault
                /\ cfg' = [cfg EXCEPT ![r] = LoadConfig(env)]
                /\ more' = [more EXCEPT ![r] = TRUE]
                /\ pc' = [pc EXCEPT ![r] = "iter"]
                /\ UNCHANGED <<logs, cause>>
             \/ /\ Fault
                /\ Abort(r, "credential", logs[r])
                /\ UNCHANGED <<cfg, more>>
    /\ UNCHANGED <<env, src, dst, cnt, page, after, cur, ev, tally, fetched,
                   asked, visited, srcSeen, src0>>
    /\ UNCHANGED fetchVars

\* The pager requests the next page of the listing (line 43); a failed
\* request raises out of the for statement.
FetchPage(r) ==
    /\ pc[r] = "iter"
    /\ page[r] = <<>>
    /\ more[r]
    /\ \/ \E p \in {PageOf(src, cfg[r].SRC_PREFIX, after[r])} :
              /\ NoFault
              /\ more' = [more EXCEPT ![r] =
                                MoreAfter(src, cfg[r].SRC_PREFIX, after[r])]
              /\ after' = [after EXCEPT ![r] = NextMarker(@, p)]
              /\ fetched' = [fetched EXCEPT ![r] = @ + 1]
              /\ srcSeen' = [srcSeen EXCEPT ![r] = @ \cup src]
              /\ Continue(r, p, MoreAfter(src, cfg[r].SRC_PREFIX, after[r]),
                          ev, logs[r], cnt[r])
       \/ /\ Fault
          /\ Abort(r, "listing", logs[r])
          /\ UNCHANGED <<page, more, after, fetched, cur, ev, visited,
                         srcSeen>>
    /\ UNCHANGED <<env, src, dst, cfg, cnt, tally, dstAtStart, endedAtStart,
                   asked, src0>>
    /\ UNCHANGED fetchVars

\* dest_client.exists() (lines 65-67, 86-88)
Exists(r) ==
    /\ pc[r] = "exists"
    /\ LET n == cur[r]
           d == DestBlobName(cfg[r], n)
       IN  \/ /\ Fault
              /\ Count(r, n, OnException(cnt[r]))
              /\ Continue(r, page[r], more[r],
                          Note(ev, r, n, {"existsReq", "existsErr"}),
                          Append(logs[r], ObjectError),
                          OnException(cnt[r]))
           \/ /\ NoFault
              /\ DestExists(d, dst)
              /\ Count(r, n, OnAlreadyThere(cnt[r]))
              /\ Continue(r, page[r], more[r],
                          Note(ev, r, n, {"existsReq", "existsTrue"}),
                          logs[r], OnAlreadyThere(cnt[r]))
           \/ /\ NoFault
              /\ ~DestExists(d, dst)
              /\ ev' = Note(ev, r, n, {"existsReq", "existsFalse"})
              /\ pc' = [pc EXCEPT ![r] = "copy"]
              /\ UNCHANGED <<cnt, tally, logs, page, cur, cause, visited>>
    /\ asked' = [asked EXCEPT ![r] = @ \cup {<<"exists", cur[r],
                                    DestBlobName(cfg[r], cur[r])>>}]
    /\ UNCHANGED <<env, src, dst, cfg, more, after, fetched,
                   dstAtStart, endedAtStart, srcSeen, src0>>
    /\ UNCHANGED fetchVars

\* dest_client.upload_blob_from_url(source_url, overwrite=False)
\* (lines 70-77, 83-88)
Copy(r) ==
    /\ pc[r] = "copy"
    /\ LET n == cur[r]
           d == DestBlobName(cfg[r], n)
           url == SrcBlobUrl(cfg[r], n)
       IN  \/ /\ NoFault
              /\ ~CopyRejected(d, dst)
              /\ SourceAt(url, cfg[r], src) # {}
              /\ dst' = dst \cup {d}
              /\ Count(r, n, OnCopied(cnt[r]))
              /\ IF DeleteEnabled(cfg[r])
                 THEN /\ ev' = Note(ev, r, n, {"copyReq", "copyOk"})
                      /\ pc' = [pc EXCEPT ![r] = "delete"]
                      /\ UNCHANGED <<logs, page, cur, cause, visited>>
                 ELSE Continue(r, page[r], more[r],
                               Note(ev, r, n, {"copyReq", "copyOk"}),
                               logs[r], OnCopied(cnt[r]))
           \/ /\ NoFault
              /\ CopyRejected(d, dst)
              /\ Count(r, n, OnResourceExists(cnt[r]))
              /\ Continue(r, page[r], more[r],
                          Note(ev, r, n, {"copyReq", "copy409"}),
                          logs[r], OnResourceExists(cnt[r]))
              /\ UNCHANGED dst
           \/ /\ \/ Fault
                 \/ NoFault /\ SourceAt(url, cfg[r], src) = {}
              /\ Count(r, n, OnException(cnt[r]))
              /\ Continue(r, page[r], more[r],
                          Note(ev, r, n, {"copyReq", "copyErr"}),
                          Append(logs[r], ObjectError),
                          OnException(cnt[r]))
              /\ UNCHANGED dst
    /\ asked' = [asked EXCEPT ![r] = @ \cup {<<"copy", cur[r],
                                    DestBlobName(cfg[r], cur[r])>>}]
    /\ UNCHANGED <<env, src, cfg, more, after, fetched,
                   dstAtStart, endedAtStart, srcSeen, src0>>
    /\ UNCHANGED fetchVars

\* BlobClient.from_blob_url(f"{src_blob_url}?{SRC_DELETE_SAS}").delete_blob()
\* (lines 78-81, 86-88)
Delete(r) ==
    /\ pc[r] = "delete"
    /\ LET n == cur[r]
           target == SourceAt(SrcBlobUrl(cfg[r], n), cfg[r], src)
       IN  \/ /\ NoFault
              /\ target # {}
              /\ src' = src \ target
              /\ Count(r, n, OnDeleted(cnt[r]))
              /\ Continue(r, page[r], more[r],
                          Note(ev, r, n, {"delReq", "delOk"}),
                          logs[r], OnDeleted(cnt[r]))
           \/ /\ \/ Fault
                 \/ NoFault /\ target = {}
              /\ Count(r, n, OnException(cnt[r]))
              /\ Continue(r, page[r], more[r],
                          Note(ev, r, n, {"delReq", "delErr"}),
                          Append(logs[r], ObjectError),
                          OnException(cnt[r]))
              /\ UNCHANGED src
    /\ UNCHANGED <<env, dst, cfg, more, after, fetched,
                   dstAtStart, endedAtStart, asked, srcSeen, src0>>
    /\ UNCHANGED fetchVars

Next ==
    \E r \in Runs :
        \/ Start(r)
        \/ FetchPage(r)
        \/ Exists(r)
        \/ Copy(r)
        \/ Delete(r)

Spec == Init /\ [][Next]_vars

\* The host stops the process in the middle of a pass (lines 43-88): no
\* handler runs, no counter changes and nothing is logged.  The process
\* stops between two requests, or after the store has carried out the
\* copy or the delete it was waiting for.  The stop is modelled for a pass
\* that is running on its own; the passes that begin afterwards may overlap.
Terminate(r) ==
    /\ pc[r] \in {"iter", "exists", "copy", "delete"}
    /\ \A q \in Runs \ {r} : pc[q] = "idle" \/ Ended(q)
    /\ pc' = [pc EXCEPT ![r] = "killed"]
    /\ \/ UNCHANGED <<src, dst, ev, asked>>
       \/ /\ pc[r] = "copy"
          /\ ~CopyRejected(DestBlobName(cfg[r], cur[r]), dst)
          /\ SourceAt(SrcBlobUrl(cfg[r], cur[r]), cfg[r], src) # {}
          /\ dst' = dst \cup {DestBlobName(cfg[r], cur[r])}
          /\ ev' = Note(ev, r, cur[r], {"copyReq", "copyOk"})
          /\ asked' = [asked EXCEPT ![r] = @ \cup {<<"copy", cur[r],
                                          DestBlobName(cfg[r], cur[r])>>}]
          /\ UNCHANGED src
       \/ /\ pc[r] = "delete"
          /\ SourceAt(SrcBlobUrl(cfg[r], cur[r]), cfg[r], src) # {}
          /\ src' = src \ SourceAt(SrcBlobUrl(cfg[r], cur[r]), cfg[r], src)
          /\ ev' = Note(ev, r, cur[r], {"delReq", "delOk"})
          /\ UNCHANGED <<dst, asked>>
    /\ UNCHANGED <<env, cfg, cnt, page, more, after, cur, logs, tally, cause,
                   fetched, dstAtStart, endedAtStart, faults, visited,
                   srcSeen, src0>>
    /\ UNCHANGED fetchVars

\* the passes together with the host stopping them
NextKill ==
    \/ Next
    \/ \E r \in Runs : Terminate(r)

SpecKill == Init /\ [][NextKill]_vars

\* Invocations that have begun keep running: every request is answered
\* or raises, and the function goes on to its next statement.  While some
\* invocation is in progress, one of them takes its next step.
Step(r) == FetchPage(r) \/ Exists(r) \/ Copy(r) \/ Delete(r)

StepAny == \E r \in Runs : Step(r)

SpecFair == Spec /\ WF_vars(StepAny)

\* ------------------------------------------------------- fetch_last_price
\* (AppFiapFinance/function_app.py, lines 10-23)
DefaultRetries == 3         \* retries: int = 3
DefaultPause == 800000      \* pause: float = 0.8, in microseconds
BackoffNum == 16            \* the factor 1.6 of the backoff, as 16 / 10
BackoffDen == 10

\* values of `result`: nothing returned yet, None, a float
NotReturned == [kind |-> "unset", value |-> 0]
None == [kind |-> "None", value |-> 0]
AsFloat(c) == [kind |-> "float", value |-> c]

\* last closing prices, in cents
Prices == {1050, 2725}

\* What one yf.download call does: it raises, or it returns None, an
\* empty frame, a frame whose last Close converts to a float, or a frame
\* whose last Close does not (the conversion depends on the shape of the
\* frame the installed yfinance and pandas produce).
Raised     == [kind |-> "raise", rows |-> 0, scalar |-> FALSE, close |-> 0]
NoFrame    == [kind |-> "none",  rows |-> 0, scalar |-> FALSE, close |-> 0]
EmptyFrame == [kind |-> "frame", rows |-> 0, scalar |-> FALSE, close |-> 0]
BadFrame   == [kind |-> "frame", rows |-> 1, scalar |-> FALSE, close |-> 0]
PriceFrame(c) == [kind |-> "frame", rows |-> 1, scalar |-> TRUE, close |-> c]
Answers == {Raised, NoFrame, EmptyFrame, BadFrame}
               \cup {PriceFrame(c) : c \in Prices}

\* variant: only None is taken as the absence of data
NonEmptyNotNone(df) == df.kind = "frame"

\* df is not None and not df.empty (lines 14, 18)
NonEmpty(df) == df.kind = "frame" /\ df.rows > 0

\* float(df["Close"].iloc[-1]) (lines 15, 19)
FloatRaises(df) == ~df.scalar
Float(df) == AsFloat(df.close)

\* variant: the loop runs for i = 0 .. retries
InRangeInclusive(k, n) == k <= n

\* k in range(n) (line 11)
InRange(k, n) == 0 <= k /\ k < n

\* variant: the pause does not grow
BackoffFlat(p, k) == p

\* pause * (1.6 ** i) (line 22)
Backoff(p, k) == (p * BackoffNum ^ k) \div (BackoffDen ^ k)

\* variant: no except clause, the exception leaves the function
ExceptPassMissing == "raised"

\* except Exception: pass (lines 20-21): control goes on to the sleep
ExceptPass == "sleep"

\* the caller calls fetch_last_price (line 10)
Call ==
    /\ fpc = "idle"
    /\ \E n \in 0..MaxRetries :
          /\ retries' = n
          /\ IF InRange(0, n)
             THEN fpc' = "intraday" /\ UNCHANGED result
             ELSE fpc' = "returned" /\ result' = None
    /\ pause' = DefaultPause
    /\ fi' = 0
    /\ UNCHANGED <<slept, downloads>>
    /\ UNCHANGED blobVars

\* what follows a download inside the try block (lines 13-21)
Decide(df, otherwise) ==
    IF df.kind = "raise"
    THEN fpc' = ExceptPass /\ UNCHANGED result
    ELSE IF NonEmpty(df)
    THEN IF FloatRaises(df)
         THEN fpc' = ExceptPass /\ UNCHANGED result
         ELSE fpc' = "returned" /\ result' = Float(df)
    ELSE fpc' = otherwise /\ UNCHANGED result

\* yf.download(sym, period="1d", interval="1m") (lines 13-15)
Intraday ==
    /\ fpc = "intraday"
    /\ \E df \in Answers :
          /\ downloads' = Append(downloads,
                                 [attempt |-> fi, req |-> "1d/1m", df |-> df])
          /\ Decide(df, "daily")
    /\ UNCHANGED <<retries, pause, fi, slept>>
    /\ UNCHANGED blobVars

\* the daily fallback yf.download(sym, period="5d", interval="1d")
\* (lines 17-19)
Daily ==
    /\ fpc = "daily"
    /\ \E df \in Answers :
          /\ downloads' = Append(downloads,
                                 [attempt |-> fi, req |-> "5d/1d", df |-> df])
          /\ Decide(df, "sleep")
    /\ UNCHANGED <<retries, pause, fi, slept>>
    /\ UNCHANGED blobVars

\* time.sleep(pause * (1.6 ** i)), then the next i or `return None`
\* (lines 11, 22, 23)
Sleep ==
    /\ fpc = "sleep"
    /\ slept' = Append(slept, Backoff(pause, fi))
    /\ IF InRange(fi + 1, retries)
       THEN fi' = fi + 1 /\ fpc' = "intraday" /\ UNCHANGED result
       ELSE fpc' = "returned" /\ result' = None /\ UNCHANGED fi
    /\ UNCHANGED <<retries, pause, downloads>>
    /\ UNCHANGED blobVars

NextFetch ==
    \/ Call
    \/ Intraday
    \/ Daily
    \/ Sleep

SpecFetch == Init /\ [][NextFetch]_vars

\* ------------------------------------------------------------- well-formed
RECURSIVE SumTally(_, _)
SumTally(r, S) ==
    IF S = {} THEN Zero
    ELSE LET n == CHOOSE x \in S : TRUE
         IN  Plus(tally[r][n], SumTally(r, S \ {n}))

TypeOK ==
    /\ env \in Envs
    /\ src \subseteq Names
    /\ pc \in [Runs -> {"idle", "iter", "exists", "copy", "delete",
                        "done", "aborted", "killed"}]
    /\ faults \in 0..MaxFaults
    /\ fpc \in {"idle", "intraday", "daily", "sleep", "returned", "raised"}
    /\ retries \in 0..MaxRetries
    /\ fi \in 0..MaxRetries
    /\ result \in {NotReturned, None} \cup {AsFloat(c) : c \in Prices}
    /\ \A r \in Runs :
         /\ cnt[r] = SumTally(r, Names)
         /\ fetched[r] \in 0..Len(NameOrder) + 1

\* ------------------------------------------------- vocabulary of the claims
\* the name ends in ".csv", compared without regard to case
EndsInCsv(n) ==
    /\ Len(n) >= 4
    /\ n[Len(n) - 3] = "."
    /\ n[Len(n) - 2] \in {"c", "C"}
    /\ n[Len(n) - 1] \in {"s", "S"}
    /\ n[Len(n)] \in {"v", "V"}

\* a deletion credential is configured: the setting has a non-blank character
HasCredential ==
    /\ env["SOURCE_DELETE_SAS"] # Unset
    /\ \E i \in 1..Len(env["SOURCE_DELETE_SAS"]) :
         env["SOURCE_DELETE_SAS"][i] \notin WhiteChars

\* destination name of a source name under the configured prefix
DestNameOf(n) ==
    (IF env["DEST_PREFIX"] = Unset THEN <<>> ELSE env["DEST_PREFIX"]) \o n

ObjectFailures == {"existsErr", "copyErr", "delErr", "quoteErr"}

SummaryCount(r) ==
    Cardinality({i \in 1..Len(logs[r]) : logs[r][i].what = "summary"})

\* run r has left the per-object block of blob n
Left(r, n) == ~(pc[r] \in {"exists", "copy", "delete"} /\ cur[r] = n)

\* run q ran to its summary and run r, the next invocation, began after that
InSuccession(q, r) ==
    /\ r = q + 1
    /\ pc[q] = "done"
    /\ q \in endedAtStart[r]

\* ---------------------------------------------------------------------- C1
\* C1: every per-object failure of a pass (existence check, copy, delete or
\* a malformed object name) increments failed for that object, and the pass
\* goes on with the remaining objects instead of aborting.
C1_FailureCountedRunContinues ==
    \A r \in Runs : \A n \in Names :
        ev[r][n] \cap ObjectFailures # {} =>
            /\ tally[r][n].failed = 1
            /\ ~(pc[r] = "aborted" /\ cause[r] = "object")

\* ---------------------------------------------------------------------- C2
\* C2: a run whose no-overwrite copy is rejected with "already exists"
\* counts the object as skipped, not as failed or copied, and does not try
\* to delete the source object.
C2_LostRaceIsSkipped ==
    \A r \in Runs : \A n \in Names :
        "copy409" \in ev[r][n] =>
            /\ tally[r][n] = [Zero EXCEPT !.skipped = 1]
            /\ "delReq" \notin ev[r][n]
            /\ Left(r, n)

\* two runs passed the existence check for the same object; one copied it
\* and the other was rejected
C2_Witness ==
    \E r \in Runs : \E q \in Runs \ {r} : \E n \in Names :
        /\ {"existsFalse", "copy409"} \subseteq ev[r][n]
        /\ {"existsFalse", "copyOk"} \subseteq ev[q][n]
        /\ tally[r][n].skipped = 1

\* ---------------------------------------------------------------------- C3
RECURSIVE CopiedBy(_, _)
CopiedBy(k, n) ==
    IF k = 0 THEN 0 ELSE tally[k][n].copied + CopiedBy(k - 1, n)

\* C3: over all runs, sequential or overlapping, the copied counter is
\* incremented at most once for one destination name.
C3_CopiedAtMostOnce ==
    \A n \in Names : CopiedBy(MaxRuns, n) <= 1

\* two runs asked for the copy of the same object and one of them got it
C3_Witness ==
    \E r \in Runs : \E q \in Runs \ {r} : \E n \in Names :
        /\ "copyReq" \in ev[r][n]
        /\ "copyReq" \in ev[q][n]
        /\ CopiedBy(MaxRuns, n) = 1

\* ---------------------------------------------------------------------- C4
\* C4 as stated: every object a pass has copied while a deletion credential
\* is configured has its source object deleted and counted in deleted;
\* without a credential no source object is deleted.
C4_CopiedThenDeleted ==
    \A r \in Runs : \A n \in Names :
        /\ HasCredential /\ "copyOk" \in ev[r][n] /\ Left(r, n) =>
               /\ n \notin src
               /\ tally[r][n].deleted = 1
        /\ ~HasCredential =>
               /\ "delReq" \notin ev[r][n]
               /\ tally[r][n].deleted = 0

\* C4 amended: for every object a pass has copied while a deletion
\* credential is configured, the delete of the source object is requested;
\* when the request succeeds the source object is gone and deleted is
\* incremented for it, when it fails the source object stays and failed is
\* incremented for it instead.  Without a credential (unset, empty or
\* blank) no delete is requested and no source object is removed.
C4_DeleteAttemptedAfterCopy ==
    \A r \in Runs : \A n \in Names :
        /\ HasCredential /\ "copyOk" \in ev[r][n] /\ Left(r, n) =>
               /\ "delReq" \in ev[r][n]
               /\ \/ /\ "delOk" \in ev[r][n]
                     /\ n \notin src
                     /\ tally[r][n].deleted = 1
                     /\ tally[r][n].failed = 0
                  \/ /\ "delErr" \in ev[r][n]
                     /\ n \in src
                     /\ tally[r][n].deleted = 0
                     /\ tally[r][n].failed = 1
        /\ "delReq" \in ev[r][n] => "copyOk" \in ev[r][n]
        /\ ~HasCredential =>
               /\ "delReq" \notin ev[r][n]
               /\ tally[r][n].deleted = 0
               /\ "listed" \in ev[r][n] => n \in src

\* with a credential: an object copied by a run and its source deleted
C4_Witness ==
    /\ HasCredential
    /\ \E r \in Runs : \E n \in Names :
         /\ {"copyOk", "delOk"} \subseteq ev[r][n]
         /\ n \notin src
         /\ tally[r][n].deleted = 1

\* ---------------------------------------------------------------------- C5
\* C5 as stated: when a pass runs right after a completed pass, every
\* object the first counted as copied is counted as skipped by the second,
\* and the second performs no copy at all.
C5_SecondRunSkipsAll ==
    \A q \in Runs : \A r \in Runs :
        InSuccession(q, r) /\ pc[r] = "done" =>
            /\ \A n \in Names :
                 tally[q][n].copied = 1 => tally[r][n].skipped = 1
            /\ cnt[r].copied = 0

\* C5 amended: when a pass runs right after a completed pass, the second
\* pass requests no copy of an object the first counted as copied (no
\* re-copy), and counts as skipped each such object that it still lists and
\* whose existence check answers.
C5_NoRecopy ==
    \A q \in Runs : \A r \in Runs :
        InSuccession(q, r) =>
            \A n \in Names :
                tally[q][n].copied = 1 =>
                    /\ "copyReq" \notin ev[r][n]
                    /\ tally[r][n].copied = 0
                    /\ "existsFalse" \notin ev[r][n]
                    /\ "existsTrue" \in ev[r][n] => tally[r][n].skipped = 1
                    /\ ( /\ pc[r] = "done"
                         /\ "listed" \in ev[r][n]
                         /\ "existsErr" \notin ev[r][n] )
                       => tally[r][n].skipped = 1

\* a second pass in succession that skipped an object the first one copied
C5_Witness ==
    \E q \in Runs : \E r \in Runs : \E n \in Names :
        /\ InSuccession(q, r)
        /\ pc[r] = "done"
        /\ tally[q][n].copied = 1
        /\ tally[r][n].skipped = 1
        /\ cnt[r].copied = 0

\* ---------------------------------------------------------------------- C6
\* C6 as stated: every listed object whose destination name exists when the
\* pass begins is counted as skipped, and no copy or source delete is
\* requested for it.
C6_ExistingIsSkipped ==
    \A r \in Runs : \A n \in Names :
        ( /\ pc[r] = "done"
          /\ "listed" \in ev[r][n]
          /\ DestNameOf(n) \in dstAtStart[r] )
        => /\ tally[r][n].skipped = 1
           /\ "copyReq" \notin ev[r][n]
           /\ "delReq" \notin ev[r][n]

\* C6 amended: for every listed object whose destination name exists when
\* the pass begins, no copy and no source delete is requested; the pass
\* counts it as skipped when the existence check answers, and as failed,
\* not skipped, when the existence check itself fails.
C6_ExistingNeverCopied ==
    \A r \in Runs : \A n \in Names :
        ( "listed" \in ev[r][n] /\ DestNameOf(n) \in dstAtStart[r] ) =>
            /\ "copyReq" \notin ev[r][n]
            /\ "delReq" \notin ev[r][n]
            /\ "existsFalse" \notin ev[r][n]
            /\ "existsTrue" \in ev[r][n] =>
                   tally[r][n] = [Zero EXCEPT !.skipped = 1]
            /\ "existsErr" \in ev[r][n] =>
                   tally[r][n] = [Zero EXCEPT !.failed = 1]
            /\ pc[r] = "done" => ev[r][n] \cap {"existsTrue", "existsErr"} # {}

\* a pass that found an object at the destination from the start and
\* counted it as skipped
C6_Witness ==
    \E r \in Runs : \E n \in Names :
        /\ DestNameOf(n) \in dstAtStart[r]
        /\ "existsTrue" \in ev[r][n]
        /\ tally[r][n].skipped = 1
        /\ pc[r] = "done"

\* ---------------------------------------------------------------------- C7
\* C7: an object whose name does not end in ".csv" (case-insensitive) is
\* never checked, copied or deleted, and no counter changes on its account.
C7_NonCsvUntouched ==
    \A r \in Runs :
        /\ \A n \in Names :
             ~EndsInCsv(n) =>
                 /\ ev[r][n] \subseteq {"listed"}
                 /\ tally[r][n] = Zero
                 /\ DestNameOf(n) \notin dst
                 /\ "listed" \in ev[r][n] => n \in src
        /\ cnt[r] = SumTally(r, {n \in Names : EndsInCsv(n)})

\* a pass that listed notes.txt and went on to count other objects
C7_Witness ==
    \E r \in Runs :
        /\ "listed" \in ev[r][NameNotes]
        /\ pc[r] = "done"
        /\ cnt[r].copied + cnt[r].skipped > 0

\* ---------------------------------------------------------------------- C8
\* C8: when DEST_CONTAINER is not set, a run aborts before anything is
\* listed, checked, copied or deleted and before any counter is incremented.
C8_NoContainerNoWork ==
    env["DEST_CONTAINER"] = Unset =>
        \A r \in Runs :
            /\ pc[r] \in {"idle", "aborted"}
            /\ fetched[r] = 0
            /\ cnt[r] = Zero
            /\ SummaryCount(r) = 0
            /\ \A n \in Names : ev[r][n] = {} /\ tally[r][n] = Zero
            /\ pc[r] = "aborted" => dst = dstAtStart[r] /\ cause[r] = "config"

\* a run that started without DEST_CONTAINER and was aborted
C8_Witness ==
    /\ env["DEST_CONTAINER"] = Unset
    /\ \E r \in Runs : pc[r] = "aborted" /\ cause[r] = "config"

\* ---------------------------------------------------------------------- C9
FatalCauses == {"config", "credential", "listing"}

\* C9 as stated: in a run ended by a fatal error (missing setting, listing
\* failure, credential failure) no object has been copied, skipped, deleted
\* or counted as failed, also when the listing fails after it has yielded
\* objects.
C9_FatalBeforeAnyObject ==
    \A r \in Runs :
        pc[r] = "aborted" /\ cause[r] \in FatalCauses =>
            /\ cnt[r] = Zero
            /\ \A n \in Names : ev[r][n] \subseteq {"listed"}

\* C9 amended: a fatal error ends the run at once and without a summary.
\* A missing setting, a credential failure or a failure of the first listing
\* request ends it before any object has been processed; a listing request
\* that fails after earlier pages were yielded ends it with the objects of
\* those pages already processed and nothing beyond them.
C9_FatalEndsRun ==
    \A r \in Runs :
        cause[r] # "none" =>
            /\ pc[r] = "aborted"
            /\ SummaryCount(r) = 0
            /\ logs[r][Len(logs[r])] = GeneralError
            /\ cause[r] \in FatalCauses =>
                 /\ ( cause[r] \in {"config", "credential"} \/ fetched[r] = 0 )
                    => /\ cnt[r] = Zero
                       /\ fetched[r] = 0
                       /\ \A n \in Names : ev[r][n] = {}
                 /\ \A n \in Names : ev[r][n] # {} => "listed" \in ev[r][n]
                 /\ Cardinality({n \in Names : "listed" \in ev[r][n]})
                      <= fetched[r] * PageSize

\* a run aborted by a listing failure after it had copied an object
C9_Witness ==
    \E r \in Runs :
        /\ pc[r] = "aborted"
        /\ cause[r] = "listing"
        /\ fetched[r] >= 1
        /\ cnt[r].copied >= 1

\* --------------------------------------------------------------------- C10
\* C10: a run logs at most one summary, it logs it exactly when it ends
\* normally, which is after the listing is exhausted, and the record holds
\* the four counters; an aborted run logs no summary.
C10_OneSummaryAtEnd ==
    \A r \in Runs :
        /\ SummaryCount(r) <= 1
        /\ SummaryCount(r) = 1 <=> pc[r] = "done"
        /\ pc[r] = "done" =>
             /\ page[r] = <<>>
             /\ ~more[r]
             /\ logs[r][Len(logs[r])] = SummaryLine(cnt[r])
        /\ pc[r] = "aborted" => SummaryCount(r) = 0

\* one run ended with its summary after copying, another was aborted
\* without one
C10_Witness ==
    \E r \in Runs : \E q \in Runs :
        /\ pc[r] = "done"
        /\ SummaryCount(r) = 1
        /\ fetched[r] >= 1
        /\ cnt[r].copied >= 1
        /\ pc[q] = "aborted"
        /\ SummaryCount(q) = 0

\* --------------------------------------------------------------------- C11
SlashCount(t) == Cardinality({i \in 1..Len(t) : t[i] = "/"})

\* C11: the destination name a pass uses in the existence check and in the
\* copy is the configured destination prefix followed by the unmodified
\* source name, every path separator of the source name included.
C11_DestNameIsPrefixPlusName ==
    \A r \in Runs : \A a \in asked[r] :
        LET n == a[2]
            d == a[3]
            prefix == IF env["DEST_PREFIX"] = Unset THEN <<>>
                      ELSE env["DEST_PREFIX"]
        IN  /\ Len(d) = Len(prefix) + Len(n)
            /\ SubSeq(d, 1, Len(prefix)) = prefix
            /\ SubSeq(d, Len(prefix) + 1, Len(d)) = n
            /\ SlashCount(d) = SlashCount(prefix) + SlashCount(n)
            /\ "copyOk" \in ev[r][n] => d \in dst

\* a pass checked out/in/a.csv and copied to out/in/b.CSV
C11_Witness ==
    \E r \in Runs :
        /\ <<"exists", NameA,
             <<"o","u","t","/","i","n","/","a",".","c","s","v">>>>
              \in asked[r]
        /\ <<"copy", NameB,
             <<"o","u","t","/","i","n","/","b",".","C","S","V">>>>
              \in asked[r]
        /\ "copyOk" \in ev[r][NameB]

\* --------------------------------------------------------------------- C12
OutA == <<"o","u","t","/","i","n","/","a",".","c","s","v">>
OutB == <<"o","u","t","/","i","n","/","b",".","C","S","V">>
OutNotes == <<"o","u","t","/","i","n","/","n","o","t","e","s",".","t","x","t">>

\* in/a.csv, in/b.CSV and in/notes.txt in the source, prefix in/, destination
\* prefix out/, destination empty when the first pass begins, no credential
ExampleDeployment ==
    /\ env["SOURCE_PREFIX"] = <<"i","n","/">>
    /\ env["DEST_PREFIX"] = <<"o","u","t","/">>
    /\ env["DEST_CONTAINER"] # Unset
    /\ env["SOURCE_DELETE_SAS"] = Unset
    /\ src0 = {NameA, NameB, NameNotes}
    /\ pc[1] # "idle"
    /\ dstAtStart[1] = {}

Reports(r, c, s, d, f) ==
    /\ pc[r] = "done"
    /\ cnt[r] = [copied |-> c, skipped |-> s, deleted |-> d, failed |-> f]
    /\ logs[r][Len(logs[r])] = [level |-> "info", what |-> "summary",
                                counters |-> cnt[r]]

\* C12: in the example deployment, when no service request fails, one pass
\* on its own creates out/in/a.csv and out/in/b.CSV, ignores notes.txt and
\* reports {copied: 2, skipped: 0, deleted: 0, failed: 0}; the pass that
\* runs right after it reports {copied: 0, skipped: 2, deleted: 0, failed: 0}.
C12_ExampleRun ==
    ExampleDeployment /\ faults = 0 =>
        /\ pc[1] = "done" /\ (pc[2] = "idle" \/ 1 \in endedAtStart[2]) =>
              /\ Reports(1, 2, 0, 0, 0)
              /\ dst = {OutA, OutB}
              /\ ev[1][NameNotes] \subseteq {"listed"}
              /\ src = src0
        /\ InSuccession(1, 2) /\ pc[2] = "done" =>
              /\ Reports(2, 0, 2, 0, 0)
              /\ dst = {OutA, OutB}

\* both passes of the example have reported
C12_Witness ==
    /\ ExampleDeployment
    /\ faults = 0
    /\ InSuccession(1, 2)
    /\ Reports(1, 2, 0, 0, 0)
    /\ Reports(2, 0, 2, 0, 0)
    /\ OutNotes \notin dst

\* --------------------------------------------------------------------- C13
\* the name passes the listing's prefix filter
UnderSourcePrefix(n) ==
    LET pre == IF env["SOURCE_PREFIX"] = Unset THEN <<>>
               ELSE env["SOURCE_PREFIX"]
    IN  Len(pre) <= Len(n) /\ \A i \in 1..Len(pre) : n[i] = pre[i]

Qualifies(n) == UnderSourcePrefix(n) /\ EndsInCsv(n)

\* C13: after a pass that ran to its summary with failed = 0, every object
\* that was in the source container when the pass listed it, is under the
\* source prefix and ends in .csv (any case) exists in the destination
\* container under its destination name.
C13_CleanPassReconciles ==
    \A r \in Runs :
        pc[r] = "done" /\ cnt[r].failed = 0 /\ SummaryCount(r) = 1 =>
            \A n \in srcSeen[r] : Qualifies(n) => DestNameOf(n) \in dst

\* a clean pass that copied one object and skipped another
C13_Witness ==
    \E r \in Runs :
        /\ pc[r] = "done" /\ cnt[r].failed = 0
        /\ cnt[r].copied >= 1 /\ cnt[r].skipped >= 1
        /\ \E n \in srcSeen[r] : Qualifies(n) /\ "copyOk" \in ev[r][n]
        /\ \E n \in srcSeen[r] : Qualifies(n) /\ "existsTrue" \in ev[r][n]
        /\ \E n \in srcSeen[r] : ~Qualifies(n)

\* --------------------------------------------------------------------- C14
Outcomes(r, n) ==
    tally[r][n].copied + tally[r][n].skipped + tally[r][n].failed

QualifyingListed(r) == {n \in Names : Qualifies(n) /\ "listed" \in ev[r][n]}

\* C14 as stated: every qualifying object a pass has processed incremented
\* exactly one of copied, skipped and failed, and at the summary
\* copied + skipped + failed is the number of qualifying objects listed.
C14_ExactlyOneCounter ==
    \A r \in Runs :
        /\ \A n \in Names :
             Qualifies(n) /\ "existsReq" \in ev[r][n] /\ Left(r, n) =>
                 Outcomes(r, n) = 1
        /\ pc[r] = "done" =>
             cnt[r].copied + cnt[r].skipped + cnt[r].failed
                 = Cardinality(QualifyingListed(r))

DeleteFailed(r) == {n \in Names : "delErr" \in ev[r][n]}

\* C14 amended: every qualifying object whose per-object block a pass has
\* left incremented exactly one of copied, skipped and failed, except that
\* an object whose copy succeeded and whose source delete then failed
\* incremented both copied and failed; at the summary
\* copied + skipped + failed is the number of qualifying objects listed
\* plus the number of objects whose delete failed after the copy.
C14_OneCounterOrCopiedAndFailed ==
    \A r \in Runs :
        /\ \A n \in Names :
             Qualifies(n) /\ "existsReq" \in ev[r][n] /\ Left(r, n) =>
                 IF n \in DeleteFailed(r)
                 THEN /\ tally[r][n].copied = 1
                      /\ tally[r][n].failed = 1
                      /\ tally[r][n].skipped = 0
                 ELSE Outcomes(r, n) = 1
        /\ pc[r] = "done" =>
             cnt[r].copied + cnt[r].skipped + cnt[r].failed
                 = Cardinality(QualifyingListed(r))
                   + Cardinality(DeleteFailed(r))

\* a pass reported after one object was copied but not deleted and another
\* was copied and deleted
C14_Witness ==
    \E r \in Runs :
        /\ pc[r] = "done"
        /\ \E n \in DeleteFailed(r) : Outcomes(r, n) = 2
        /\ \E n \in QualifyingListed(r) :
             "delOk" \in ev[r][n] /\ Outcomes(r, n) = 1

\* --------------------------------------------------------------------- C15
\* run r began after run q had been stopped
AfterKilled(q, r) == pc[q] = "killed" /\ q \in endedAtStart[r]

CopiedBy15(q) == {n \in Names : "copyOk" \in ev[q][n]}
NotReached(q) == {n \in src0 : Qualifies(n) /\ "existsReq" \notin ev[q][n]}

\* C15 as stated, no service request failing: the objects a stopped pass
\* had copied are in the destination, and the next pass that runs to its
\* summary has counted each of them as skipped and has brought every
\* qualifying object the stopped pass had not reached to the destination.
C15_NextPassSkipsAndCopies ==
    \A q \in Runs : \A r \in Runs :
        AfterKilled(q, r) /\ r = q + 1 /\ pc[r] = "done" /\ faults = 0 =>
            /\ \A n \in CopiedBy15(q) :
                  DestNameOf(n) \in dst /\ tally[r][n].skipped = 1
            /\ \A n \in NotReached(q) : DestNameOf(n) \in dst

\* C15 amended: the objects a stopped pass had copied stay in the
\* destination and no later pass copies them again; a later pass whose
\* existence check of such an object answers counts it as skipped and
\* nothing else; a later pass that ran to its summary with failed = 0 has
\* every qualifying object it listed at the destination.
C15_KilledPassIsResumed ==
    \A q \in Runs : \A r \in Runs :
        AfterKilled(q, r) =>
            /\ \A n \in CopiedBy15(q) :
                  /\ DestNameOf(n) \in dst
                  /\ ev[r][n] \cap {"existsFalse", "copyReq", "delReq"} = {}
                  /\ "existsTrue" \in ev[r][n] =>
                        tally[r][n] = [Zero EXCEPT !.skipped = 1]
            /\ pc[r] = "done" /\ cnt[r].failed = 0 =>
                  \A n \in srcSeen[r] : Qualifies(n) => DestNameOf(n) \in dst

\* a pass was stopped after its first copy; the next pass skipped that
\* object, copied one the stopped pass had not reached and reported
C15_Witness ==
    \E q \in Runs : \E r \in Runs :
        /\ AfterKilled(q, r)
        /\ pc[r] = "done" /\ cnt[r].failed = 0
        /\ \E n \in CopiedBy15(q) : "existsTrue" \in ev[r][n]
        /\ \E n \in NotReached(q) : "copyOk" \in ev[r][n]

\* --------------------------------------------------------------------- C16
\* what run r has requested, counted and logged so far
Footprint(r) == <<ev[r], asked[r], cnt[r], fetched[r], logs[r], visited[r]>>

RunLevelFailure(r) == cause[r] # "none"

\* C16: a run-level failure is not retried within its invocation: the step
\* in which a failure outside the per-object scope occurs logs the general
\* error and ends the invocation, and from then on the invocation lists,
\* checks, copies, deletes, counts and logs nothing more.
C16_RunFailureNotRetried ==
    [][\A r \in Runs :
          /\ ~RunLevelFailure(r) /\ RunLevelFailure(r)' =>
                /\ pc'[r] = "aborted"
                /\ Len(logs'[r]) > Len(logs[r])
                /\ logs'[r][Len(logs'[r])].what = "general"
          /\ RunLevelFailure(r) =>
                /\ pc[r] = "aborted" /\ pc'[r] = "aborted"
                /\ Footprint(r)' = Footprint(r)
                /\ cause'[r] = cause[r]]_vars

\* the second listing request of a pass failed after it had copied an
\* object; the next invocation began afterwards and ran to its summary
C16_Witness ==
    \E q \in Runs : \E r \in Runs :
        /\ pc[q] = "aborted" /\ cause[q] = "listing"
        /\ cnt[q].copied >= 1
        /\ \E n \in Names : "listed" \notin ev[q][n] /\ "listed" \in ev[r][n]
        /\ q \in endedAtStart[r]
        /\ pc[r] = "done"

\* --------------------------------------------------------------------- C17
NoRevisit(r) ==
    \A i \in 1..Len(visited[r]) : \A j \in 1..Len(visited[r]) :
        visited[r][i] = visited[r][j] => i = j

\* the loop took exactly the blobs the listing of run r has returned
VisitedIsListed(r) ==
    pc[r] = "done" =>
        {visited[r][i] : i \in 1..Len(visited[r])}
            = {n \in srcSeen[r] : UnderSourcePrefix(n)}

\* C17: every invocation that begins ends (from some moment on no
\* invocation is in progress), after one traversal of the listing in which
\* no blob is visited twice and, when the traversal runs to the summary,
\* every listed blob has been visited, whatever the outcomes of the
\* checks, copies and deletes are.
C17_TerminatesAfterOneTraversal ==
    /\ [](\A r \in Runs : NoRevisit(r) /\ VisitedIsListed(r))
    /\ <>[](\A r \in Runs : pc[r] \in {"idle", "done", "aborted"})

\* a pass ended after visiting the blobs of two pages, with a skip, a copy
\* and a failure among the outcomes
C17_Witness ==
    \E r \in Runs :
        /\ pc[r] = "done"
        /\ fetched[r] >= 2
        /\ Len(visited[r]) > PageSize
        /\ cnt[r].skipped >= 1 /\ cnt[r].copied >= 1 /\ cnt[r].failed >= 1

\* --------------------------------------------------------------------- C18
\* the runs whose delete request removed n from the source
DeletedBy(n) == {r \in Runs : "delOk" \in ev[r][n]}

\* C18: no data is lost, however the passes overlap: an object that was in
\* the source is still there or is in the destination under its
\* destination name, a pass requests the deletion of an object only after
\* its own copy of it succeeded, and an object that has left the source was
\* deleted by exactly one such pass.
C18_NoDataLoss ==
    /\ \A n \in src0 : n \in src \/ DestNameOf(n) \in dst
    /\ \A r \in Runs : \A n \in Names :
          "delReq" \in ev[r][n] => "copyOk" \in ev[r][n]
    /\ \A n \in src0 \ src :
          /\ Qualifies(n)
          /\ Cardinality(DeletedBy(n)) = 1
    /\ src \subseteq src0

\* two passes worked on the same object at the same time; one of them
\* copied and deleted it and the other one lost the race for the copy
C18_Witness ==
    \E n \in src0 \ src : \E r \in Runs : \E q \in Runs \ {r} :
        /\ {"copyOk", "delOk"} \subseteq ev[r][n]
        /\ {"existsFalse", "copy409"} \subseteq ev[q][n]
        /\ DestNameOf(n) \in dst

\* --------------------------------------------------------------------- C19
\* with a credential configured, run q copied n and then either failed to
\* delete it or was stopped before the delete was carried out
Stranded(q, n) ==
    /\ HasCredential
    /\ "copyOk" \in ev[q][n]
    /\ \/ "delErr" \in ev[q][n]
       \/ pc[q] = "killed" /\ "delOk" \notin ev[q][n]

\* run r began after run q had ended
Later(q, r) == q \in endedAtStart[r]

\* C19 as stated: an object copied but not deleted is counted as skipped by
\* every later pass that has run to its end, no later pass requests its
\* deletion, and it stays in the source.
C19_StrandedSkippedByEveryLaterPass ==
    \A q \in Runs : \A n \in Names :
        Stranded(q, n) =>
            /\ n \in src
            /\ \A r \in Runs :
                  Later(q, r) /\ pc[r] = "done" =>
                      /\ tally[r][n].skipped = 1
                      /\ "delReq" \notin ev[r][n]

\* C19 amended: an object copied but not deleted stays in the source and in
\* the destination; no other pass copies it or requests its deletion; a
\* later pass never finds its destination missing, and counts it as skipped
\* and nothing else when its existence check answers.
C19_StrandedNeverDeleted ==
    \A q \in Runs : \A n \in Names :
        Stranded(q, n) =>
            /\ n \in src
            /\ DestNameOf(n) \in dst
            /\ \A r \in Runs \ {q} :
                  /\ "delReq" \notin ev[r][n]
                  /\ "copyOk" \notin ev[r][n]
                  /\ Later(q, r) =>
                        /\ "existsFalse" \notin ev[r][n]
                        /\ "existsTrue" \in ev[r][n] =>
                              tally[r][n] = [Zero EXCEPT !.skipped = 1]

\* the delete of a copied object failed; the next pass ran to its summary
\* and counted the object as skipped
C19_Witness ==
    \E q \in Runs : \E r \in Runs : \E n \in Names :
        /\ Stranded(q, n)
        /\ "delErr" \in ev[q][n]
        /\ Later(q, r)
        /\ pc[r] = "done"
        /\ tally[r][n].skipped = 1
        /\ n \in src

\* a pass was stopped between the copy and the delete of an object and the
\* next pass counted the object as skipped
C19_WitnessKilled ==
    \E q \in Runs : \E r \in Runs : \E n \in Names :
        /\ Stranded(q, n)
        /\ pc[q] = "killed" /\ "delReq" \notin ev[q][n]
        /\ Later(q, r)
        /\ pc[r] = "done"
        /\ tally[r][n].skipped = 1

\* --------------------------------------------------------------------- C20
Downloaded == 1..Len(downloads)
AttemptsMade == Cardinality({downloads[k].attempt : k \in Downloaded})

\* download k came back with a frame that has rows
HasData(k) == downloads[k].df.kind = "frame" /\ downloads[k].df.rows > 0
\* ... and the last Close of that frame converts to a float
Converts(k) == HasData(k) /\ downloads[k].df.scalar

\* the attempts that have ended without a return, their pause included
FailedAttempts ==
    IF fpc = "returned" /\ result.kind = "None" THEN retries ELSE fi

\* at most `retries` attempts, the daily download only and always after
\* an intraday download without data, a pause of pause * 1.6^i after each
\* unsuccessful attempt i, no exception leaves the function
AttemptsAndPauses ==
    /\ AttemptsMade <= retries
    /\ \A k \in Downloaded : downloads[k].attempt < retries
    /\ fpc # "raised"
    /\ \A k \in Downloaded :
          downloads[k].req = "5d/1d" =>
              /\ k > 1
              /\ downloads[k - 1].attempt = downloads[k].attempt
              /\ downloads[k - 1].req = "1d/1m"
              /\ downloads[k - 1].df.kind # "raise"
              /\ ~HasData(k - 1)
    /\ \A k \in Downloaded :
          /\ downloads[k].req = "1d/1m"
          /\ downloads[k].df.kind # "raise"
          /\ ~HasData(k)
          => IF k = Len(downloads) THEN fpc = "daily"
             ELSE /\ downloads[k + 1].req = "5d/1d"
                  /\ downloads[k + 1].attempt = downloads[k].attempt
    /\ fpc \notin {"idle", "sleep"} => Len(slept) = FailedAttempts
    /\ \A j \in 1..Len(slept) :
          slept[j] = (pause * 16 ^ (j - 1)) \div (10 ^ (j - 1))

\* C20 as stated: at most `retries` attempts; the price of the first
\* non-empty intraday or daily download is returned and nothing is
\* downloaded after it; None is returned after `retries` attempts without a
\* non-empty download; no exception reaches the caller; every unsuccessful
\* attempt, the last one included, is followed by its backoff pause.
C20_FirstNonEmptyIsReturned ==
    /\ AttemptsAndPauses
    /\ \A k \in Downloaded :
          HasData(k) =>
              /\ k = Len(downloads)
              /\ fpc = "returned"
              /\ result = [kind |-> "float", value |-> downloads[k].df.close]
    /\ fpc = "returned" /\ (\A k \in Downloaded : ~HasData(k)) =>
          /\ result.kind = "None"
          /\ AttemptsMade = retries
          /\ Len(slept) = retries

\* C20 amended: at most `retries` attempts; the price of the first
\* non-empty download whose last Close converts to a float is returned and
\* nothing is downloaded after it; a non-empty download whose conversion
\* raises ends its attempt like any other exception; None is returned
\* after `retries` attempts without a converted price; no exception
\* reaches the caller; every unsuccessful attempt, the last one included,
\* is followed by its backoff pause.
C20_FirstConvertedIsReturned ==
    /\ AttemptsAndPauses
    /\ \A k \in Downloaded :
          /\ Converts(k) =>
                /\ k = Len(downloads)
                /\ fpc = "returned"
                /\ result = [kind |-> "float",
                             value |-> downloads[k].df.close]
          /\ HasData(k) /\ ~Converts(k) =>
                /\ ~(fpc = "daily" /\ k = Len(downloads))
                /\ \A m \in Downloaded :
                      m > k => downloads[m].attempt > downloads[k].attempt
    /\ fpc = "returned" /\ (\A k \in Downloaded : ~Converts(k)) =>
          /\ result.kind = "None"
          /\ AttemptsMade = retries
          /\ Len(slept) = retries

\* called with the default retries: the first attempt raised, the second
\* got a frame that did not convert, the third returned the daily price
C20_Witness ==
    /\ fpc = "returned"
    /\ retries = DefaultRetries
    /\ result.kind = "float"
    /\ Len(downloads) = 4
    /\ downloads[1].df.kind = "raise"
    /\ HasData(2) /\ ~Converts(2)
    /\ downloads[3].df.kind = "none"
    /\ downloads[4].req = "5d/1d" /\ Converts(4)
    /\ slept = <<800000, 1280000>>

\* all attempts of a call with the default retries came back empty
C20_WitnessNone ==
    /\ fpc = "returned"
    /\ retries = DefaultRetries
    /\ result.kind = "None"
    /\ Len(downloads) = 6
    /\ slept = <<800000, 1280000, 2048000>>

====
